---- MODULE Spec2Model ----
(***************************************************************************)
(* Model of minst_verification.ipynb: the label index and the pair         *)
(* sampler (organize_by_label, create_pairs), the contrastive loss         *)
(* (ContrastiveLoss.forward) and the training loop with checkpointing,     *)
(* plateau learning-rate decay and early stopping.                         *)
(*                                                                         *)
(* Floating-point values are modelled as tagged pairs: <<"fin", n>> is a   *)
(* finite value of n / Unit, <<"inf", 0>> is +infinity and <<"nan", 0>>   *)
(* is NaN.  A finite result above FloatMax rounds to +infinity, as IEEE    *)
(* arithmetic does.                                                        *)
(***************************************************************************)
EXTENDS Integers, Sequences, FiniteSets, TLC

VARIABLES
  \* ---- training loop (cells 8 and 9) ----
  pc,                 \* position of the training loop
  epoch,              \* 1-based epoch number (the code's epoch + 1)
  batch,              \* training batches of this epoch already applied
  params,             \* model parameters: <<e, b>> = after b batches of epoch e
  avg_val_loss,       \* validation loss of the current epoch
  best_val_loss,
  early_stop_counter,
  checkpoint,         \* best_siamese_model.pth: <<>> (no file) or <<params>>
  scheduler,          \* ReduceLROnPlateau: [best, num_bad_epochs]
  lr,                 \* optimizer learning rate, [num, den] in units of 1e-8
  \* ---- history variables of the training loop ----
  low,                \* lowest finite validation loss observed so far
  low_epoch,          \* first epoch that observed it (0: no finite loss yet)
  end_prev,           \* checkpoint, best_val_loss, early_stop_counter at the end of the previous epoch
  last_write,         \* epoch of the last checkpoint write (0: none)
  sched_fed,          \* number of scheduler.step calls so far
  bad_run,            \* consecutive epochs, up to the last one fed, that did not improve on the scheduler's best
  lr_prev,            \* lr before the last scheduler.step
  \* ---- label index and pair sampler (cells 2 and 3) ----
  ppc,                \* position of the data preparation
  dataset,            \* labels of the samples; sample index i is dataset[i + 1]
  idx,                \* next index organize_by_label scans
  label_dict,         \* label -> sequence of sample indices
  num_pairs,
  iter,               \* iterations of create_pairs completed
  pairs,              \* records <<idx1, idx2, s>> in generation order
  pos_label,          \* per iteration: the label random.choice drew for the positive pair
  \* ---- contrastive loss (cell 6) ----
  lpc,
  distances,          \* euclidean_distance, one float per pair of the batch
  plabels,            \* label tensor of the batch (0 or 1)
  loss                \* result of ContrastiveLoss.forward

train_vars == <<pc, epoch, batch, params, avg_val_loss, best_val_loss,
                early_stop_counter, checkpoint, scheduler, lr,
                low, low_epoch, end_prev, last_write,
                sched_fed, bad_run, lr_prev>>
pair_vars == <<ppc, dataset, idx, label_dict, num_pairs, iter, pairs, pos_label>>
loss_vars == <<lpc, distances, plabels, loss>>
vars == <<train_vars, pair_vars, loss_vars>>

(***************************************************************************)
(* Floating point                                                          *)
(***************************************************************************)
Unit == 4
FloatMax == 100000
Fin(n) == <<"fin", n>>
PosInf == <<"inf", 0>>
NaN == <<"nan", 0>>
IsFin(x) == x[1] = "fin"
IsNaN(x) == x[1] = "nan"
IsInf(x) == x[1] = "inf"

\* rounding of an exact non-negative result
Round(n) == IF n > FloatMax THEN PosInf ELSE Fin(n)

\* Python / IEEE a < b: false whenever an operand is NaN
FLt(a, b) ==
  /\ ~IsNaN(a)
  /\ ~IsNaN(b)
  /\ \/ IsFin(a) /\ IsFin(b) /\ a[2] < b[2]
     \/ IsFin(a) /\ IsInf(b)

\* a + b on operands that are finite, +infinity or NaN
FAdd(a, b) ==
  IF IsNaN(a) \/ IsNaN(b) THEN NaN
  ELSE IF IsInf(a) \/ IsInf(b) THEN PosInf
  ELSE Round(a[2] + b[2])

\* a - b on finite operands
FSub(a, b) == Fin(a[2] - b[2])

\* a * b on non-negative operands: 0 * inf is NaN
FMul(a, b) ==
  IF IsNaN(a) \/ IsNaN(b) THEN NaN
  ELSE IF IsInf(a) THEN (IF b = Fin(0) THEN NaN ELSE PosInf)
  ELSE IF IsInf(b) THEN (IF a = Fin(0) THEN NaN ELSE PosInf)
  ELSE Round((a[2] * b[2]) \div Unit)

\* torch.pow(x, 2)
FPow2(x) ==
  IF IsNaN(x) THEN NaN
  ELSE IF IsInf(x) THEN PosInf
  ELSE Round((x[2] * x[2]) \div Unit)

\* torch.clamp(x, min=0.0)
FClampMin0(x) == IF IsFin(x) /\ x[2] < 0 THEN Fin(0) ELSE x

\* x / n for a count n >= 1
FDivN(x, n) == IF IsFin(x) THEN Fin(x[2] \div n) ELSE x

(***************************************************************************)
(* Training loop                                                           *)
(***************************************************************************)
num_epochs == 50
patience == 10
NumBatches == 2

\* values the validation pass can produce: avg_val_loss = val_loss / len(test_dataloader)
FiniteLosses == {5000, 10000, 15000, 19999, 20000}
LossDomain == {Fin(n) : n \in FiniteLosses} \cup {PosInf, NaN}

\* ReduceLROnPlateau(optimizer, mode='min', factor=0.5, patience=3), threshold 1e-4 (relative)
sched_patience == 3
ThresholdDen == 10000
LrInit == [num |-> 10000, den |-> 1]

\* mode 'min', threshold_mode 'rel': a < best * (1 - threshold)
is_better(a, best) ==
  /\ ~IsNaN(a)
  /\ ~IsNaN(best)
  /\ \/ IsFin(a) /\ IsInf(best)
     \/ IsFin(a) /\ IsFin(best) /\ ThresholdDen * a[2] < (ThresholdDen - 1) * best[2]

\* new_lr = max(old_lr * factor, min_lr); applied when old_lr - new_lr > eps (1e-8)
reduce_lr(old) ==
  IF old.num > 2 * old.den THEN [num |-> old.num, den |-> 2 * old.den] ELSE old

\* a scheduler that reduces as soon as num_bad_epochs reaches patience
SchedulerAfterAtPatience(s, rate, metrics) ==
  LET better == is_better(metrics, s.best)
      best1 == IF better THEN metrics ELSE s.best
      bad1 == IF better THEN 0 ELSE s.num_bad_epochs + 1
  IN  IF bad1 >= sched_patience
      THEN [sched |-> [best |-> best1, num_bad_epochs |-> 0], lr |-> reduce_lr(rate)]
      ELSE [sched |-> [best |-> best1, num_bad_epochs |-> bad1], lr |-> rate]

\* scheduler.step(metrics): the scheduler state and the learning rate afterwards
SchedulerAfter(s, rate, metrics) ==
  LET better == is_better(metrics, s.best)
      best1 == IF better THEN metrics ELSE s.best
      bad1 == IF better THEN 0 ELSE s.num_bad_epochs + 1
  IN  IF bad1 > sched_patience
      THEN [sched |-> [best |-> best1, num_bad_epochs |-> 0], lr |-> reduce_lr(rate)]
      ELSE [sched |-> [best |-> best1, num_bad_epochs |-> bad1], lr |-> rate]

\* a comparison that also accepts an equal loss
ImprovedOrEqual(v, best) == FLt(v, best) \/ (IsFin(v) /\ v = best)

\* if avg_val_loss < best_val_loss
Improved(v, best) == FLt(v, best)

\* a decision whose improving branch forgets best_val_loss = avg_val_loss
checkpoint_decision_keep_best(v, best, counter, ckpt, p) ==
  IF Improved(v, best)
  THEN [best |-> best, counter |-> 0, checkpoint |-> <<p>>]
  ELSE [best |-> best, counter |-> counter + 1, checkpoint |-> ckpt]

\* a decision whose improving branch forgets early_stop_counter = 0
checkpoint_decision_no_reset(v, best, counter, ckpt, p) ==
  IF Improved(v, best)
  THEN [best |-> v, counter |-> counter, checkpoint |-> <<p>>]
  ELSE [best |-> best, counter |-> counter + 1, checkpoint |-> ckpt]

\* early stopping and model saving: best_val_loss, early_stop_counter and the
\* checkpoint file after the if/else, p being model.state_dict()
checkpoint_decision(v, best, counter, ckpt, p) ==
  IF Improved(v, best)
  THEN [best |-> v, counter |-> 0, checkpoint |-> <<p>>]
  ELSE [best |-> best, counter |-> counter + 1, checkpoint |-> ckpt]

\* a stop test that fires one epoch late
should_stop_late(counter) == counter > patience

\* if early_stop_counter >= patience: break
should_stop(counter) == counter >= patience

TrainIdle ==
  /\ pc = "idle" /\ epoch = 0 /\ batch = 0 /\ params = <<0, 0>>
  /\ avg_val_loss = NaN /\ best_val_loss = PosInf /\ early_stop_counter = 0
  /\ checkpoint = <<>> /\ scheduler = [best |-> PosInf, num_bad_epochs |-> 0]
  /\ lr = LrInit /\ low = 0 /\ low_epoch = 0
  /\ end_prev = [checkpoint |-> <<>>, best |-> PosInf, counter |-> 0]
  /\ last_write = 0 /\ sched_fed = 0 /\ bad_run = 0 /\ lr_prev = LrInit

PairIdle ==
  /\ ppc = "idle" /\ dataset = <<>> /\ idx = 0 /\ label_dict = <<>>
  /\ num_pairs = 0 /\ iter = 0 /\ pairs = <<>> /\ pos_label = <<>>

LossIdle ==
  /\ lpc = "idle" /\ distances = <<>> /\ plabels = <<>> /\ loss = NaN

\* state after cell 8: model, optimizer, scheduler built; loop about to start
TrainInit ==
  /\ pc = "Training" /\ epoch = 1 /\ batch = 0 /\ params = <<0, 0>>
  /\ avg_val_loss = NaN /\ best_val_loss = PosInf /\ early_stop_counter = 0
  /\ checkpoint = <<>> /\ scheduler = [best |-> PosInf, num_bad_epochs |-> 0]
  /\ lr = LrInit /\ low = 0 /\ low_epoch = 0
  /\ end_prev = [checkpoint |-> <<>>, best |-> PosInf, counter |-> 0]
  /\ last_write = 0 /\ sched_fed = 0 /\ bad_run = 0 /\ lr_prev = LrInit

\* a training phase that also saves the parameters after every batch
TrainBatchSaving ==
  /\ pc = "Training"
  /\ batch < NumBatches
  /\ batch' = batch + 1
  /\ params' = <<epoch, batch + 1>>
  /\ checkpoint' = <<params'>>
  /\ pc' = IF batch + 1 = NumBatches THEN "Validating" ELSE "Training"
  /\ UNCHANGED <<epoch, avg_val_loss, best_val_loss, early_stop_counter,
                 scheduler, lr, low, low_epoch,
                 end_prev, last_write, sched_fed, bad_run, lr_prev>>
  /\ UNCHANGED <<pair_vars, loss_vars>>

\* one batch of the training phase: optimizer.step() changes the parameters
TrainBatch ==
  /\ pc = "Training"
  /\ batch < NumBatches
  /\ batch' = batch + 1
  /\ params' = <<epoch, batch + 1>>
  /\ pc' = IF batch + 1 = NumBatches THEN "Validating" ELSE "Training"
  /\ UNCHANGED <<epoch, avg_val_loss, best_val_loss, early_stop_counter,
                 checkpoint, scheduler, lr, low, low_epoch,
                 end_prev, last_write, sched_fed, bad_run, lr_prev>>
  /\ UNCHANGED <<pair_vars, loss_vars>>

\* the validation phase: no parameter update, yields avg_val_loss
Validate ==
  /\ pc = "Validating"
  /\ \E v \in LossDomain :
       /\ avg_val_loss' = v
       /\ IF IsFin(v) /\ (low_epoch = 0 \/ v[2] < low)
          THEN low' = v[2] /\ low_epoch' = epoch
          ELSE UNCHANGED <<low, low_epoch>>
  /\ pc' = "CheckpointDecision"
  /\ UNCHANGED <<epoch, batch, params, best_val_loss, early_stop_counter,
                 checkpoint, scheduler, lr, end_prev, last_write, sched_fed,
                 bad_run, lr_prev>>
  /\ UNCHANGED <<pair_vars, loss_vars>>

\* early stopping and model saving
CheckpointDecision ==
  /\ pc = "CheckpointDecision"
  /\ LET d == checkpoint_decision(avg_val_loss, best_val_loss,
                                   early_stop_counter, checkpoint, params)
     IN  /\ best_val_loss' = d.best
         /\ early_stop_counter' = d.counter
         /\ checkpoint' = d.checkpoint
         /\ last_write' = IF d.checkpoint # checkpoint THEN epoch ELSE last_write
  /\ pc' = "LRAdapt"
  /\ UNCHANGED <<epoch, batch, params, avg_val_loss, scheduler, lr,
                 low, low_epoch, end_prev, sched_fed, bad_run,
                 lr_prev>>
  /\ UNCHANGED <<pair_vars, loss_vars>>

\* scheduler.step(avg_val_loss)
LRAdapt ==
  /\ pc = "LRAdapt"
  /\ LET after == SchedulerAfter(scheduler, lr, avg_val_loss)
     IN  /\ scheduler' = after.sched
         /\ lr' = after.lr
         /\ bad_run' = IF is_better(avg_val_loss, scheduler.best) THEN 0 ELSE bad_run + 1
  /\ lr_prev' = lr
  /\ sched_fed' = sched_fed + 1
  /\ pc' = "StopCheck"
  /\ UNCHANGED <<epoch, batch, params, avg_val_loss, best_val_loss,
                 early_stop_counter, checkpoint, low, low_epoch,
                 end_prev, last_write>>
  /\ UNCHANGED <<pair_vars, loss_vars>>

\* if early_stop_counter >= patience: break; otherwise the next value of range(num_epochs)
StopCheck ==
  /\ pc = "StopCheck"
  /\ end_prev' = [checkpoint |-> checkpoint, best |-> best_val_loss,
                  counter |-> early_stop_counter]
  /\ IF should_stop(early_stop_counter) \/ epoch >= num_epochs
     THEN /\ pc' = "Stopped"
          /\ UNCHANGED <<epoch, batch>>
     ELSE /\ pc' = "Training"
          /\ epoch' = epoch + 1
          /\ batch' = 0
  /\ UNCHANGED <<params, avg_val_loss, best_val_loss, early_stop_counter,
                 checkpoint, scheduler, lr, low, low_epoch,
                 last_write, sched_fed, bad_run, lr_prev>>
  /\ UNCHANGED <<pair_vars, loss_vars>>

\* KeyboardInterrupt (or a kernel crash) during the training or validation phase
Interrupt ==
  /\ pc \in {"Training", "Validating"}
  /\ pc' = "Interrupted"
  /\ UNCHANGED <<epoch, batch, params, avg_val_loss, best_val_loss,
                 early_stop_counter, checkpoint, scheduler, lr, low,
                 low_epoch, end_prev, last_write, sched_fed, bad_run,
                 lr_prev>>
  /\ UNCHANGED <<pair_vars, loss_vars>>

(***************************************************************************)
(* Label index and pair sampler                                            *)
(***************************************************************************)
MaxData == 3
MaxPairs == 2
Labels == {0, 1}

Datasets == UNION {[1..n -> Labels] : n \in 0..MaxData}

\* _, label = dataset[idx]
LabelOf(ds, i) == ds[i + 1]

Range(f) == {f[x] : x \in DOMAIN f}

\* a loop body that restarts the bucket instead of appending to it
organize_step_overwrite(dict, i, label) ==
  IF label \notin DOMAIN dict
  THEN (label :> <<i>>) @@ dict
  ELSE [dict EXCEPT ![label] = <<i>>]

\* one iteration of the loop of organize_by_label
organize_step(dict, i, label) ==
  IF label \notin DOMAIN dict
  THEN (label :> <<i>>) @@ dict
  ELSE [dict EXCEPT ![label] = Append(@, i)]

\* the records the positive half of an iteration can append for a drawn label:
\* random.sample(label_dict[label], 2) when the bucket has two members, else nothing
positive_records(dict, label) ==
  IF Len(dict[label]) >= 2
  THEN {<< <<dict[label][ij[1]], dict[label][ij[2]], 0>> >> :
          ij \in {p \in (1..Len(dict[label])) \X (1..Len(dict[label])) : p[1] # p[2]}}
  ELSE {<<>>}

\* a negative pair whose two labels are drawn independently
negative_records_independent(dict) ==
  UNION {{<<i1, i2, 1>> : i1 \in Range(dict[ll[1]]), i2 \in Range(dict[ll[2]])} :
           ll \in (DOMAIN dict) \X (DOMAIN dict)}

\* the records the negative half of an iteration can append:
\* label1, label2 = random.sample(labels, 2), one random.choice from each bucket
negative_records(dict) ==
  UNION {{<<i1, i2, 1>> : i1 \in Range(dict[ll[1]]), i2 \in Range(dict[ll[2]])} :
           ll \in {p \in (DOMAIN dict) \X (DOMAIN dict) : p[1] # p[2]}}

\* an iteration that appends its negative record first
iteration_records_negative_first(pos, neg) == <<neg>> \o pos

\* what one iteration appends to pairs, in order
iteration_records(pos, neg) == pos \o <<neg>>

\* state after the MNIST split is loaded: organize_by_label starts scanning
PairInit ==
  /\ ppc = "organize"
  /\ dataset \in Datasets
  /\ idx = 0
  /\ label_dict = <<>>
  /\ num_pairs \in 0..MaxPairs
  /\ iter = 0
  /\ pairs = <<>>
  /\ pos_label = <<>>

\* for idx in range(len(dataset)): one iteration
OrganizeStep ==
  /\ ppc = "organize"
  /\ idx < Len(dataset)
  /\ label_dict' = organize_step(label_dict, idx, LabelOf(dataset, idx))
  /\ idx' = idx + 1
  /\ UNCHANGED <<ppc, dataset, num_pairs, iter, pairs, pos_label>>
  /\ UNCHANGED <<train_vars, loss_vars>>

\* return label_dict, followed by the call create_pairs(dataset, label_dict, num_pairs)
OrganizeReturn ==
  /\ ppc = "organize"
  /\ idx = Len(dataset)
  /\ ppc' = "create"
  /\ UNCHANGED <<dataset, idx, label_dict, num_pairs, iter, pairs, pos_label>>
  /\ UNCHANGED <<train_vars, loss_vars>>

\* one iteration of the loop of create_pairs that runs to its end
CreatePairsIteration ==
  /\ ppc = "create"
  /\ iter < num_pairs
  /\ Cardinality(DOMAIN label_dict) >= 2
  /\ \E label \in DOMAIN label_dict :
       \E pos \in positive_records(label_dict, label) :
         \E neg \in negative_records(label_dict) :
           /\ pairs' = pairs \o iteration_records(pos, neg)
           /\ pos_label' = Append(pos_label, label)
  /\ iter' = iter + 1
  /\ UNCHANGED <<ppc, dataset, idx, label_dict, num_pairs>>
  /\ UNCHANGED <<train_vars, loss_vars>>

\* an iteration that raises: random.choice on no label (IndexError), or
\* random.sample(labels, 2) on a single label (ValueError), the latter after
\* the positive half has run
CreatePairsRaise ==
  /\ ppc = "create"
  /\ iter < num_pairs
  /\ Cardinality(DOMAIN label_dict) < 2
  /\ \/ /\ DOMAIN label_dict = {}
        /\ UNCHANGED <<pairs, pos_label>>
     \/ \E label \in DOMAIN label_dict :
          \E pos \in positive_records(label_dict, label) :
            /\ pairs' = pairs \o pos
            /\ pos_label' = Append(pos_label, label)
  /\ ppc' = "raised"
  /\ UNCHANGED <<dataset, idx, label_dict, num_pairs, iter>>
  /\ UNCHANGED <<train_vars, loss_vars>>

\* return pairs
CreatePairsReturn ==
  /\ ppc = "create"
  /\ iter = num_pairs
  /\ ppc' = "returned"
  /\ UNCHANGED <<dataset, idx, label_dict, num_pairs, iter, pairs, pos_label>>
  /\ UNCHANGED <<train_vars, loss_vars>>

InitPairs == TrainIdle /\ PairInit /\ LossIdle

NextPairs ==
  \/ OrganizeStep
  \/ OrganizeReturn
  \/ CreatePairsIteration
  \/ CreatePairsRaise
  \/ CreatePairsReturn

SpecPairs == InitPairs /\ [][NextPairs]_vars

(***************************************************************************)
(* Contrastive loss                                                        *)
(***************************************************************************)
MaxBatch == 2
BigDist == 2000
One == Fin(Unit)
\* criterion = ContrastiveLoss(margin=1.0)
margin == Fin(Unit)

\* distances pairwise_distance can return: 0, 0.5, 1.0, 1.5, 2.0 and a large
\* finite one whose square is not representable
DistValues == {0, 2, 4, 6, 8, BigDist}
LabelValues == {Fin(0), One}

\* (1 - label) * d^2 + label * clamp(margin - d, min=0)^2 for one pair
pair_loss(d, label) ==
  FAdd(FMul(FSub(One, label), FPow2(d)),
       FMul(label, FPow2(FClampMin0(FSub(margin, d)))))

RECURSIVE FSum(_)
FSum(xs) == IF xs = <<>> THEN Fin(0) ELSE FAdd(Head(xs), FSum(Tail(xs)))

\* ContrastiveLoss.forward: torch.mean over the batch of the per-pair values
forward(ds, ls) ==
  FDivN(FSum([k \in 1..Len(ds) |-> pair_loss(ds[k], ls[k])]), Len(ds))

\* a batch of embeddings pairs has been reduced to distances and labels
LossInit ==
  /\ lpc = "ready"
  /\ \E n \in 1..MaxBatch :
       /\ distances \in [1..n -> {Fin(d) : d \in DistValues}]
       /\ plabels \in [1..n -> LabelValues]
  /\ loss = NaN

\* loss = criterion(output1, output2, labels)
Forward ==
  /\ lpc = "ready"
  /\ loss' = forward(distances, plabels)
  /\ lpc' = "done"
  /\ UNCHANGED <<distances, plabels>>
  /\ UNCHANGED <<train_vars, pair_vars>>

InitLoss == TrainIdle /\ PairIdle /\ LossInit

NextLoss == Forward

SpecLoss == InitLoss /\ [][NextLoss]_vars

Init == TrainInit /\ PairIdle /\ LossIdle

Run == TrainBatch \/ Validate \/ CheckpointDecision \/ LRAdapt \/ StopCheck

Next == Run \/ Interrupt

Spec == Init /\ [][Next]_vars

\* every training and validation phase completes: no interruption, and the
\* single thread of control always takes its next step
SpecLive == Init /\ [][Run]_vars /\ WF_vars(Run)

(***************************************************************************)
(* Claims about the training loop                                          *)
(***************************************************************************)
\* the parameters an epoch has at its checkpoint decision: all its batches applied
EpochParams(e) == <<e, NumBatches>>

\* the checkpoint decision of the current epoch has been taken, or the loop is
\* inside a later phase that has not yet produced a new validation loss
DecisionSettled == pc \in {"Training", "Validating", "LRAdapt", "StopCheck",
                           "Stopped", "Interrupted"}

EpochEnded == pc \in {"StopCheck", "Stopped"}

\* C1 as stated: at the end of every completed epoch N, whatever the validation
\* losses were, the checkpoint file holds the parameters of the epoch with the
\* lowest validation loss among epochs 1..N and best_val_loss is that loss.
C1_CheckpointAlwaysLowest ==
  EpochEnded =>
    /\ checkpoint # <<>>
    /\ checkpoint[1] = EpochParams(low_epoch)
    /\ best_val_loss = Fin(low)

\* C1 amended: at the end of every completed epoch N, if some epoch of 1..N had a
\* finite validation loss, the checkpoint holds the parameters of the first epoch
\* with the lowest finite loss and best_val_loss is that loss; if none had
\* (every loss was +infinity or NaN), no checkpoint exists and best_val_loss is
\* still +infinity.
C1_CheckpointLowestFinite ==
  EpochEnded =>
    IF low_epoch = 0
    THEN checkpoint = <<>> /\ best_val_loss = PosInf
    ELSE /\ checkpoint = <<EpochParams(low_epoch)>>
         /\ best_val_loss = Fin(low)
         /\ low_epoch \in 1..epoch

\* C1 witness: an epoch ends whose checkpoint is from an earlier epoch, after a
\* first epoch without a finite loss
C1_Witness ==
  /\ pc = "StopCheck"
  /\ epoch >= 4
  /\ low_epoch \in 2..(epoch - 2)
  /\ checkpoint = <<EpochParams(low_epoch)>>
  /\ IsFin(avg_val_loss)
  /\ avg_val_loss[2] > low

C9_DecisionStep ==
  pc = "CheckpointDecision" /\ pc' = "LRAdapt" =>
    \/ /\ FLt(avg_val_loss, best_val_loss)
       /\ checkpoint' = <<params>>
       /\ best_val_loss' = avg_val_loss
       /\ early_stop_counter' = 0
    \/ /\ ~FLt(avg_val_loss, best_val_loss)
       /\ early_stop_counter' = early_stop_counter + 1
       /\ checkpoint' = checkpoint
       /\ best_val_loss' = best_val_loss

C9_CounterAtEpochEnd ==
  EpochEnded =>
    /\ early_stop_counter = epoch - last_write
    /\ early_stop_counter \in 0..patience
    /\ last_write # 0 => checkpoint = <<EpochParams(last_write)>>

\* C9: the checkpoint decision either (the loss is below best_val_loss) writes
\* the current parameters, sets best_val_loss to the loss and resets
\* early_stop_counter to 0, or (otherwise) adds 1 to early_stop_counter and
\* leaves the checkpoint and best_val_loss alone; at the end of every epoch
\* early_stop_counter is the number of epochs completed since the last
\* checkpoint write (since the start when there was none) and is in 0..patience.
C9_DecisionAndCounter == [][C9_DecisionStep]_vars /\ []C9_CounterAtEpochEnd

\* C9 witness: an epoch ends several epochs after the last checkpoint write
C9_Witness ==
  /\ pc = "StopCheck"
  /\ last_write >= 2
  /\ early_stop_counter = 3
  /\ epoch = last_write + 3

\* a decision on a tie or on a first finite loss, and the epoch a checkpoint is from
C10_TieStep ==
  pc = "CheckpointDecision" /\ pc' = "LRAdapt" =>
    /\ avg_val_loss = best_val_loss =>
         /\ checkpoint' = checkpoint
         /\ best_val_loss' = best_val_loss
         /\ early_stop_counter' = early_stop_counter + 1
    /\ IsFin(avg_val_loss) /\ checkpoint = <<>> =>
         /\ checkpoint' = <<params>>
         /\ best_val_loss' = avg_val_loss

C10_EarliestOfTies ==
  DecisionSettled /\ low_epoch # 0 =>
    /\ checkpoint # <<>>
    /\ checkpoint[1][1] = low_epoch
    /\ best_val_loss[2] = low

\* C10: a validation loss equal to best_val_loss does not overwrite the
\* checkpoint and increments early_stop_counter; an epoch with a finite loss
\* that finds no checkpoint yet writes one, and no checkpoint is missing once a
\* finite loss was observed; the checkpoint is from the earliest of the epochs
\* that share the lowest loss.
C10_StrictImprovement == [][C10_TieStep]_vars /\ []C10_EarliestOfTies

\* C10 witness: an epoch whose loss tied the best left the older checkpoint in
\* place and counted as non-improving
C10_Witness ==
  /\ pc = "LRAdapt"
  /\ avg_val_loss = best_val_loss
  /\ IsFin(avg_val_loss)
  /\ low_epoch < epoch
  /\ checkpoint = <<EpochParams(low_epoch)>>
  /\ early_stop_counter >= 1

\* why the loop is Stopped, which epochs it runs, and the step that stops it
C3_StopReason ==
  pc = "Stopped" => early_stop_counter = patience \/ epoch = num_epochs

C3_EpochInBudget == epoch \in 1..num_epochs

C3_NoEpochPastPatience ==
  pc \in {"Training", "Validating", "CheckpointDecision"} =>
    early_stop_counter < patience

C3_StopAtFirstChance ==
  pc = "StopCheck" /\ (early_stop_counter >= patience \/ epoch = num_epochs) =>
    pc' = "Stopped"

\* C3: when no phase is interrupted the loop always reaches Stopped; it is
\* Stopped only with the counter at patience or after epoch num_epochs; it never
\* runs an epoch above num_epochs, and never starts an epoch with the counter at
\* patience.
C3_Terminates ==
  /\ <>(pc = "Stopped")
  /\ [](C3_StopReason /\ C3_EpochInBudget /\ C3_NoEpochPastPatience)
  /\ [][C3_StopAtFirstChance]_vars

\* C3 witness: the loop stopped after epoch num_epochs with the counter below patience
C3_Witness ==
  /\ pc = "Stopped"
  /\ epoch = num_epochs
  /\ early_stop_counter < patience

\* C4 as stated: the scheduler is fed once per completed epoch and halves the
\* learning rate after 3 consecutive non-improving epochs.
C4_HalvesAfterThree ==
  /\ sched_fed = IF EpochEnded THEN epoch ELSE epoch - 1
  /\ pc = "StopCheck" /\ bad_run = 3 => lr.den = 2 * lr_prev.den

\* feeding of the scheduler, its reduction rule, and who changes the learning rate
C4_FedOncePerEpoch ==
  sched_fed = IF EpochEnded THEN epoch ELSE epoch - 1

C4_HalvesAtFourth ==
  pc = "StopCheck" =>
    /\ lr # lr_prev <=> (bad_run > 0 /\ bad_run % (sched_patience + 1) = 0)
    /\ lr # lr_prev => lr = [num |-> lr_prev.num, den |-> 2 * lr_prev.den]
    /\ scheduler.num_bad_epochs = bad_run % (sched_patience + 1)

C4_OnlySchedulerChangesLr ==
  /\ lr' # lr => pc = "LRAdapt"
  /\ pc = "LRAdapt" => early_stop_counter' = early_stop_counter
  /\ scheduler' # scheduler => pc = "LRAdapt"

\* C4 amended: the scheduler is fed the validation loss once per completed
\* epoch; it halves the learning rate at the 4th consecutive epoch that does not
\* improve on its own best (and again at every 4th after that), counting with
\* num_bad_epochs, which early_stop_counter neither reads nor writes; the
\* learning rate changes at no other point of the loop.
C4_PlateauScheduler ==
  /\ [](C4_FedOncePerEpoch /\ C4_HalvesAtFourth)
  /\ [][C4_OnlySchedulerChangesLr]_vars

\* C4 witness: the learning rate was halved at the end of a 4th non-improving
\* epoch while early_stop_counter, which counts something else, differs from
\* the scheduler's counter
C4_Witness ==
  /\ pc = "StopCheck"
  /\ bad_run = 4
  /\ lr.den = 2 * lr_prev.den
  /\ scheduler.num_bad_epochs = 0
  /\ early_stop_counter = 2

(***************************************************************************)
(* Claims about the label index and the pair sampler                       *)
(***************************************************************************)
InBucket(i, l) == \E k \in 1..Len(label_dict[l]) : label_dict[l][k] = i

\* C7: the mapping organize_by_label returns holds every index of the dataset
\* exactly once, each under its own label, in buckets that are non-empty and
\* increasing; an empty dataset gives an empty mapping.
C7_LabelIndexPartition ==
  ppc = "create" /\ iter = 0 =>
    /\ \A i \in 0..(Len(dataset) - 1) :
         Cardinality({lk \in UNION {{<<l, k>> : k \in 1..Len(label_dict[l])} :
                                       l \in DOMAIN label_dict} :
                        label_dict[lk[1]][lk[2]] = i}) = 1
    /\ \A l \in DOMAIN label_dict :
         /\ Len(label_dict[l]) >= 1
         /\ \A k \in 1..Len(label_dict[l]) :
              /\ label_dict[l][k] \in 0..(Len(dataset) - 1)
              /\ LabelOf(dataset, label_dict[l][k]) = l
         /\ \A k \in 1..(Len(label_dict[l]) - 1) :
              label_dict[l][k] < label_dict[l][k + 1]
    /\ dataset = <<>> => DOMAIN label_dict = {}

\* C7 witness: a returned mapping with two labels, one bucket holding two
\* indices that are not adjacent in the dataset
C7_Witness ==
  /\ ppc = "create"
  /\ dataset = <<0, 1, 0>>
  /\ DOMAIN label_dict = {0, 1}
  /\ label_dict[0] = <<0, 2>>
  /\ label_dict[1] = <<1>>

\* C2: every record of create_pairs with s = 0 has two distinct indices of one
\* bucket (equal dataset labels), and every record with s = 1 has indices of
\* two different buckets (different dataset labels).
C2_PairLabelsConsistent ==
  ppc = "returned" =>
  \A k \in 1..Len(pairs) :
    LET idx1 == pairs[k][1]
        idx2 == pairs[k][2]
        s == pairs[k][3]
    IN  /\ s \in {0, 1}
        /\ s = 0 =>
             /\ idx1 # idx2
             /\ \E l \in DOMAIN label_dict : InBucket(idx1, l) /\ InBucket(idx2, l)
             /\ LabelOf(dataset, idx1) = LabelOf(dataset, idx2)
        /\ s = 1 =>
             /\ \E l1 \in DOMAIN label_dict : \E l2 \in DOMAIN label_dict :
                  l1 # l2 /\ InBucket(idx1, l1) /\ InBucket(idx2, l2)
             /\ ~\E l \in DOMAIN label_dict : InBucket(idx1, l) /\ InBucket(idx2, l)
             /\ LabelOf(dataset, idx1) # LabelOf(dataset, idx2)

\* C2 witness: create_pairs returned records of both kinds
C2_Witness ==
  /\ ppc = "returned"
  /\ Len(pairs) = 4
  /\ pairs[1][3] = 0
  /\ pairs[2][3] = 1
  /\ pairs[3][3] = 0

\* iteration i appended a label-0 record iff its drawn label has two members
Made(i) == Len(label_dict[pos_label[i]]) >= 2
\* position in pairs of the first record of iteration i
Start(i) == i + Cardinality({j \in 1..(i - 1) : Made(j)})

\* C6: with at least two labels create_pairs never raises and returns N to 2N
\* records: per iteration, in order, a label-0 record exactly when the drawn
\* label has at least two members, then one label-1 record.
C6_PairSequenceShape ==
  Cardinality(DOMAIN label_dict) >= 2 =>
    /\ ppc # "raised"
    /\ ppc = "create" /\ iter < num_pairs =>
         /\ negative_records(label_dict) # {}
         /\ \A l \in DOMAIN label_dict : positive_records(label_dict, l) # {}
    /\ ppc = "returned" =>
         /\ Len(pos_label) = num_pairs
         /\ Len(pairs) = num_pairs + Cardinality({i \in 1..num_pairs : Made(i)})
         /\ Len(pairs) \in num_pairs..(2 * num_pairs)
         /\ Cardinality({k \in 1..Len(pairs) : pairs[k][3] = 1}) = num_pairs
         /\ Cardinality({k \in 1..Len(pairs) : pairs[k][3] = 0}) <= num_pairs
         /\ \A i \in 1..num_pairs :
              IF Made(i)
              THEN /\ pairs[Start(i)][3] = 0
                   /\ InBucket(pairs[Start(i)][1], pos_label[i])
                   /\ pairs[Start(i) + 1][3] = 1
              ELSE pairs[Start(i)][3] = 1

\* C6 witness: two iterations returned three records: the first drew a label
\* with a single member and made no label-0 record, the second made one
C6_Witness ==
  /\ ppc = "returned"
  /\ num_pairs = 2
  /\ Cardinality(DOMAIN label_dict) = 2
  /\ ~Made(1)
  /\ Made(2)
  /\ Len(pairs) = 3
  /\ pairs[1][3] = 1
  /\ pairs[2][3] = 0

(***************************************************************************)
(* Claims about the contrastive loss                                       *)
(***************************************************************************)
NonNegative(x) == IsInf(x) \/ (IsFin(x) /\ x[2] >= 0)

\* C8: every per-pair loss is non-negative, it is 0 for label 0 at distance 0
\* and for label 1 at a distance of at least the margin, and the batch loss is
\* non-negative.
C8_LossNonNegative ==
  lpc = "done" =>
    /\ NonNegative(loss)
    /\ \A k \in 1..Len(distances) :
         LET d == distances[k]
             label == plabels[k]
         IN  /\ NonNegative(pair_loss(d, label))
             /\ label = Fin(0) /\ d = Fin(0) => pair_loss(d, label) = Fin(0)
             /\ label = One /\ d[2] >= margin[2] => pair_loss(d, label) = Fin(0)

====
